---- MODULE Spec2Model ----
(***************************************************************************)
(* Model of the aws-vpce-operator convergence helpers:                     *)
(*   controllers/vpcendpoint/helpers.go  (locator, attachment synchronizer)*)
(*   pkg/aws_client/vpc_endpoint.go      (EC2 wrappers, placement selector)*)
(* A reconcile pass is a sequence of blocking cloud API calls; every       *)
(* action below is one API call returning, followed by the code that runs  *)
(* until the next API call is issued.                                      *)
(***************************************************************************)
EXTENDS Integers, Sequences, FiniteSets, TLC

\* ---------------------------------------------------------------- bounds
MaxPasses == 2        \* reconcile passes per process
MaxEndpoints == 4     \* endpoint identifiers the cloud can hand out
MaxConcPasses == 1    \* passes per process when two processes run at once
MaxPages == 2         \* result pages of DescribeVpcEndpoints
MaxPageLen == 3       \* endpoints on one result page
MaxRuns == 2          \* runs of the placement selector on one input

\* ------------------------------------------------------- universe of ids
Procs == {1, 2}
Subnets == {"s1", "s2", "s3"}
Groups == {"g1", "g2"}
PreIds == {1, 2}                  \* identifiers of endpoints existing at start
EndpointIds == 1..MaxEndpoints
FirstNewId == Cardinality(PreIds) + 1   \* the cloud never reuses an identifier

ResourceName == "res"             \* resource.Name
TrueInfraName == "infra"
TrueClusterTag == "kubernetes.io/cluster/infra"
TrueVpcId == "vpc-0"
OperatorTagKey == "operator-key"
OperatorTagValue == "operator-value"

\* ---------------------------------------------------------- clusterInfo
\* parseClusterInfo allocates an empty struct and fills the fields in the
\* order region, infraName, clusterTag, vpcId, domainName, returning at the
\* first error: the struct it leaves behind has the first `level` fields set.
clusterInfoAt(level) ==
  [region     |-> IF level >= 1 THEN "region" ELSE "",
   infraName  |-> IF level >= 2 THEN TrueInfraName ELSE "",
   clusterTag |-> IF level >= 3 THEN TrueClusterTag ELSE "",
   vpcId      |-> IF level >= 4 THEN TrueVpcId ELSE "",
   domainName |-> IF level >= 5 THEN "domain" ELSE ""]

\* ------------------------------------------------------------------ util
\* util.GenerateVPCEndpointName: "" stands for the error return.
GenerateVPCEndpointName(infraName, purpose) ==
  IF infraName = "" \/ purpose = "" THEN "" ELSE infraName \o "-" \o purpose \o "-vpce"

\* util.GenerateAwsTags: {} stands for the error return (empty name or key).
GenerateAwsTags(name, tagKey) ==
  IF name = "" \/ tagKey = "" THEN {}
  ELSE {<<"Name", name>>, <<tagKey, "owned">>, <<OperatorTagKey, OperatorTagValue>>}

\* util.StringSliceTwoWayDiff(current, desired) = <<toAdd, toRemove>>
StringSliceTwoWayDiff(current, desired) ==
  <<desired \ current, current \ desired>>

\* ------------------------------------------------------------ the cloud
NoEndpoint == [exists |-> FALSE, tags |-> {}, subnets |-> {}, groups |-> {}]
NoVpce == [id |-> 0, tags |-> {}, subnets |-> {}, groups |-> {}]

Snapshot(eps, id) ==
  [id |-> id, tags |-> eps[id].tags, subnets |-> eps[id].subnets,
   groups |-> eps[id].groups]

\* The three filters FilterVPCEndpointByDefaultTags sends.
MatchesDefaultTags(tags, clusterTag, vpceNameTag) ==
  /\ <<"Name", vpceNameTag>> \in tags
  /\ \E t \in tags : t[1] = clusterTag
  /\ <<OperatorTagKey, OperatorTagValue>> \in tags

RECURSIVE SortedSeq(_)
SortedSeq(S) ==
  IF S = {} THEN <<>>
  ELSE LET m == CHOOSE x \in S : \A y \in S : x <= y
       IN <<m>> \o SortedSeq(S \ {m})

\* DescribeVpcEndpoints with the default tag filters: the matching endpoints,
\* in the cloud's (stable) listing order.
DescribeByTags(eps, clusterTag, vpceNameTag) ==
  SortedSeq({id \in EndpointIds :
               /\ eps[id].exists
               /\ MatchesDefaultTags(eps[id].tags, clusterTag, vpceNameTag)})

VARIABLES
  endpoints,       \* cloud: endpoint id -> endpoint
  nextId,          \* next identifier the cloud hands out
  privateSubnets,  \* the cluster's private subnets (DescribePrivateSubnets)
  statusId,        \* resource.Status.VPCEndpointId, 0 is ""
  sgId,            \* resource.Status.SecurityGroupId
  clusterInfo,     \* r.clusterInfo
  changed,         \* something outside the passes changed since the last return
  pass,            \* per process: the position and locals of its reconcile pass
  sel,             \* the placement selector: its input, paginator and locals
  dns,             \* the DNS record synthesizer: its input, position and result
  rl               \* the rate limiter of the work queue

vars == <<endpoints, nextId, privateSubnets, statusId, sgId, clusterInfo,
          changed, pass, sel, dns, rl>>

reconcilerVars == <<endpoints, nextId, privateSubnets, statusId, sgId, clusterInfo,
                    changed, pass>>

\* ------------------------------------------------------- call log entries
Call(op, kind, id, ids, tags, out, n) ==
  [op |-> op, kind |-> kind, id |-> id, ids |-> ids, tags |-> tags,
   out |-> out, n |-> n]

IsMutating(c) == c.op \in {"CreateVpcEndpoint", "ModifyVpcEndpoint", "DeleteVpcEndpoints"}

Mutations(calls) == {i \in 1..Len(calls) : IsMutating(calls[i])}

IdlePass ==
  [pc |-> "idle", n |-> 0, rid |-> 0, vpce |-> NoVpce, todo |-> <<>>,
   calls |-> <<>>, err |-> "None", applied |-> FALSE,
   prevClean |-> FALSE, prevPartial |-> FALSE, prevMutated |-> FALSE,
   observedPartial |-> FALSE]

\* The pass reads a field of r.clusterInfo (helpers.go lines 143, 150, 154 and
\* 209-213): observedPartial remembers that the context it read from was not
\* fully populated.
Observe(ps) ==
  [ps EXCEPT !.observedPartial = @ \/ clusterInfo # clusterInfoAt(5)]

\* ============================================================ helpers.go
\* A locator that never takes a lookup's result for an answer.
noEndpointReturned_always(resp) == TRUE

\* findOrCreateVpcEndpoint, line 141/149: "no VPC Endpoint returned".
noEndpointReturned(resp) == Len(resp) = 0

\* The two arguments of the diff interchanged.
diffVpcEndpointSubnets_swapped(vpce, privateSubnetIds) ==
  StringSliceTwoWayDiff(privateSubnetIds, vpce.subnets)

\* diffVpcEndpointSubnets, lines 218-224.
diffVpcEndpointSubnets(vpce, privateSubnetIds) ==
  StringSliceTwoWayDiff(vpce.subnets, privateSubnetIds)

\* The two arguments of the diff interchanged.
diffVpcEndpointSecurityGroups_swapped(vpce, securityGroupId) ==
  StringSliceTwoWayDiff({securityGroupId}, vpce.groups)

\* diffVpcEndpointSecurityGroups, lines 262-272.
diffVpcEndpointSecurityGroups(vpce, securityGroupId) ==
  StringSliceTwoWayDiff(vpce.groups, {securityGroupId})

Modify(kind, ids) == [kind |-> kind, ids |-> ids]

\* Subnets added before the stale ones are removed.
ensureVpcEndpointSubnetsCalls_addFirst(subnetsToAdd, subnetsToRemove) ==
  (IF subnetsToAdd # {} THEN <<Modify("AddSubnetIds", subnetsToAdd)>> ELSE <<>>)
  \o (IF subnetsToRemove # {} THEN <<Modify("RemoveSubnetIds", subnetsToRemove)>> ELSE <<>>)

\* The addition dropped when there is also something to remove.
ensureVpcEndpointSubnetsCalls_removeOnly(subnetsToAdd, subnetsToRemove) ==
  IF subnetsToRemove # {} THEN <<Modify("RemoveSubnetIds", subnetsToRemove)>>
  ELSE IF subnetsToAdd # {} THEN <<Modify("AddSubnetIds", subnetsToAdd)>> ELSE <<>>

\* ensureVpcEndpointSubnets, lines 182-200: the modify calls in issue order.
ensureVpcEndpointSubnetsCalls(subnetsToAdd, subnetsToRemove) ==
  (IF subnetsToRemove # {} THEN <<Modify("RemoveSubnetIds", subnetsToRemove)>> ELSE <<>>)
  \o (IF subnetsToAdd # {} THEN <<Modify("AddSubnetIds", subnetsToAdd)>> ELSE <<>>)

\* Security groups removed before the expected one is added.
ensureVpcEndpointSecurityGroupsCalls_removeFirst(sgToAdd, sgToRemove) ==
  (IF sgToRemove # {} THEN <<Modify("RemoveSecurityGroupIds", sgToRemove)>> ELSE <<>>)
  \o (IF sgToAdd # {} THEN <<Modify("AddSecurityGroupIds", sgToAdd)>> ELSE <<>>)

\* The removal call forgotten when there is also something to add.
ensureVpcEndpointSecurityGroupsCalls_addOnly(sgToAdd, sgToRemove) ==
  IF sgToAdd # {} THEN <<Modify("AddSecurityGroupIds", sgToAdd)>>
  ELSE IF sgToRemove # {} THEN <<Modify("RemoveSecurityGroupIds", sgToRemove)>> ELSE <<>>

\* The addition issued a second time after it returned.
ensureVpcEndpointSecurityGroupsCalls_twice(sgToAdd, sgToRemove) ==
  (IF sgToAdd # {} THEN <<Modify("AddSecurityGroupIds", sgToAdd),
                         Modify("AddSecurityGroupIds", sgToAdd)>> ELSE <<>>)
  \o (IF sgToRemove # {} THEN <<Modify("RemoveSecurityGroupIds", sgToRemove)>> ELSE <<>>)

\* ensureVpcEndpointSecurityGroups, lines 235-253: the modify calls in issue order.
ensureVpcEndpointSecurityGroupsCalls(sgToAdd, sgToRemove) ==
  (IF sgToAdd # {} THEN <<Modify("AddSecurityGroupIds", sgToAdd)>> ELSE <<>>)
  \o (IF sgToRemove # {} THEN <<Modify("RemoveSecurityGroupIds", sgToRemove)>> ELSE <<>>)

\* A pass returns: err is "None" for a nil error.
Return(ps, err) == [ps EXCEPT !.pc = "returned", !.err = err, !.todo = <<>>]

\* ensureVpcEndpointSecurityGroups from its entry up to its first modify call.
ensureVpcEndpointSecurityGroups(ps) ==
  LET d == diffVpcEndpointSecurityGroups(ps.vpce, sgId)
      todo == ensureVpcEndpointSecurityGroupsCalls(d[1], d[2])
  IN IF todo = <<>> THEN Return(ps, "None")
     ELSE [ps EXCEPT !.pc = "ModifySecurityGroups", !.todo = todo]

\* A subnet synchronizer that does not look at the cluster tag.
ensureVpcEndpointSubnets_unguarded(ps) ==
  [Observe(ps) EXCEPT !.pc = "DescribePrivateSubnets"]

\* ensureVpcEndpointSubnets from its entry up to DescribePrivateSubnets
\* (diffVpcEndpointSubnets, lines 209-213).
ensureVpcEndpointSubnets(ps) ==
  IF clusterInfo.clusterTag = "" THEN Return(Observe(ps), "InvalidInput")
  ELSE [Observe(ps) EXCEPT !.pc = "DescribePrivateSubnets"]

\* findOrCreateVpcEndpoint returned vpce: the pass goes on to the synchronizer.
located(ps, vpce) == ensureVpcEndpointSubnets([ps EXCEPT !.vpce = vpce])

\* findOrCreateVpcEndpoint, lines 149-154, and CreateDefaultInterfaceVPCEndpoint,
\* lines 174-177: what happens before CreateVpcEndpoint is issued.
createBranch(ps) ==
  LET vpceName == GenerateVPCEndpointName(clusterInfo.infraName, ResourceName)
  IN IF vpceName = "" THEN Return(Observe(ps), "InvalidInput")
     ELSE IF GenerateAwsTags(vpceName, clusterInfo.clusterTag) = {}
          THEN Return(Observe(ps), "CreateFailed")
          ELSE [Observe(ps) EXCEPT !.pc = "CreateVpcEndpoint"]

\* A locator that creates whatever the tag search returned.
afterTagSearch_alwaysCreate(ps, resp) == createBranch(ps)

\* findOrCreateVpcEndpoint, lines 141-164, once the tag search returned resp.
afterTagSearch(ps, resp) ==
  IF noEndpointReturned(resp) THEN createBranch(ps)
  ELSE located(ps, resp[1])

\* FilterVPCEndpointByDefaultTags, lines 148-150: no call on an empty tag.
tagSearchBranch(ps) ==
  IF clusterInfo.clusterTag = "" THEN afterTagSearch(Observe(ps), <<>>)
  ELSE [Observe(ps) EXCEPT !.pc = "FilterVPCEndpointByDefaultTags"]

\* A locator that gives up when the recorded identifier is not found.
afterIdLookup_notFoundFatal(ps, resp) ==
  IF noEndpointReturned(resp) THEN Return(ps, "ApiError")
  ELSE located(ps, resp[1])

\* findOrCreateVpcEndpoint, lines 141 and 165-168, once the id lookup returned.
afterIdLookup(ps, resp) ==
  IF noEndpointReturned(resp) THEN tagSearchBranch(ps)
  ELSE located(ps, resp[1])

\* A creation request that also names a subnet and a security group.
CreateDefaultInterfaceVPCEndpoint_attached(name, vpcId, tagKey) ==
  [exists |-> TRUE, tags |-> GenerateAwsTags(name, tagKey),
   subnets |-> {"s1"}, groups |-> {"g1"}]

\* A creation request that leaves the tag specification out.
CreateDefaultInterfaceVPCEndpoint_untagged(name, vpcId, tagKey) ==
  [exists |-> TRUE, tags |-> {}, subnets |-> {}, groups |-> {}]

\* CreateDefaultInterfaceVPCEndpoint, lines 179-193: the request carries the
\* VPC, the service name, the interface type and the tags, and nothing else.
CreateDefaultInterfaceVPCEndpoint(name, vpcId, tagKey) ==
  [exists |-> TRUE, tags |-> GenerateAwsTags(name, tagKey), subnets |-> {}, groups |-> {}]

\* The API call a suspended pass is waiting for.
PendingCall(ps) ==
  LET name == GenerateVPCEndpointName(clusterInfo.infraName, ResourceName)
  IN CASE ps.pc = "DescribeSingleVPCEndpointById" ->
            Call("DescribeVpcEndpoints", "ById", ps.rid, {}, {}, "pending", 0)
       [] ps.pc = "FilterVPCEndpointByDefaultTags" ->
            Call("DescribeVpcEndpoints", "ByTags", 0, {}, {}, "pending", 0)
       [] ps.pc = "CreateVpcEndpoint" ->
            Call("CreateVpcEndpoint", name, 0, {},
                 CreateDefaultInterfaceVPCEndpoint(name, clusterInfo.vpcId,
                                                   clusterInfo.clusterTag).tags,
                 "pending", 0)
       [] ps.pc = "DescribePrivateSubnets" ->
            Call("DescribeSubnets", "Private", 0, {}, {}, "pending", 0)
       [] ps.pc \in {"ModifySubnets", "ModifySecurityGroups"} ->
            Call("ModifyVpcEndpoint", Head(ps.todo).kind, ps.vpce.id,
                 Head(ps.todo).ids, {}, "pending", 0)

\* The pending call returned with outcome out (n endpoints, endpoint id).
Log(ps, out, n, id) ==
  [ps EXCEPT !.calls = Append(@, [PendingCall(ps) EXCEPT !.out = out, !.n = n, !.id = id])]

\* ---------------------------------------------------------------- actions
\* The external trigger starts a pass; the pass reads the resource and calls
\* findOrCreateVpcEndpoint, which calls DescribeSingleVPCEndpointById
\* (no API call for an empty id, vpc_endpoint.go lines 118-121).
StartPassUpTo(p, limit) ==
  /\ pass[p].pc \in {"idle", "returned"}
  /\ pass[p].n < limit
  /\ LET old == pass[p]
         fresh == [IdlePass EXCEPT
                     !.n = old.n + 1,
                     !.rid = statusId,
                     !.prevClean = (old.pc = "returned" /\ old.err = "None" /\ ~changed),
                     !.prevPartial = (old.pc = "returned" /\ old.err # "None" /\ old.applied),
                     !.prevMutated = (Mutations(old.calls) # {})]
     IN pass' = [pass EXCEPT ![p] =
                   IF statusId = 0 THEN afterIdLookup(fresh, <<>>)
                   ELSE [fresh EXCEPT !.pc = "DescribeSingleVPCEndpointById"]]
  /\ changed' = FALSE
  /\ UNCHANGED <<sel, dns, rl, endpoints, nextId, privateSubnets, statusId, sgId, clusterInfo>>

\* A lookup that hands on whatever the listing holds, whatever its length.
describeSingleResult_uncounted(out, eps) ==
  IF out = "error" THEN [resp |-> <<>>, err |-> "ApiError"]
  ELSE IF out = "NotFound" THEN [resp |-> <<>>, err |-> "None"]
       ELSE [resp |-> eps, err |-> "None"]

\* DescribeSingleVPCEndpointById, vpc_endpoint.go lines 128-143: what it makes
\* of the outcome of DescribeVpcEndpoints.
describeSingleResult(out, eps) ==
  IF out = "error" THEN [resp |-> <<>>, err |-> "ApiError"]
  ELSE IF out = "NotFound" THEN [resp |-> <<>>, err |-> "None"]
       ELSE IF Len(eps) # 1 THEN [resp |-> <<>>, err |-> "UnexpectedCount"]
            ELSE [resp |-> eps, err |-> "None"]

\* Answers to DescribeVpcEndpoints(VpcEndpointIds = [id]) that hold no endpoint
\* or more than one: what lines 139-141 guard against.
Miscounted(eps) ==
  {<<>>} \cup
  (IF eps[1].exists /\ eps[2].exists
   THEN {<<Snapshot(eps, 1), Snapshot(eps, 2)>>} ELSE {})

\* DescribeVpcEndpoints(VpcEndpointIds = [id]) returns.
DescribeSingleVPCEndpointById(p) ==
  /\ pass[p].pc = "DescribeSingleVPCEndpointById"
  /\ LET ps == pass[p]
     IN \/ pass' = [pass EXCEPT ![p] = Return(Log(ps, "error", 0, ps.rid), "ApiError")]
        \/ /\ ~endpoints[ps.rid].exists
           /\ pass' = [pass EXCEPT ![p] = afterIdLookup(Log(ps, "NotFound", 0, ps.rid), <<>>)]
        \/ /\ endpoints[ps.rid].exists
           /\ pass' = [pass EXCEPT ![p] =
                         afterIdLookup(Log(ps, "ok", 1, ps.rid), <<Snapshot(endpoints, ps.rid)>>)]
        \/ \E eps \in Miscounted(endpoints) :
             LET d == describeSingleResult("ok", eps)
                 logged == Log(ps, "miscounted", Len(eps), ps.rid)
             IN pass' = [pass EXCEPT ![p] =
                           IF d.err # "None" THEN Return(logged, d.err)
                           ELSE afterIdLookup(logged, d.resp)]
  /\ UNCHANGED <<sel, dns, rl, endpoints, nextId, privateSubnets, statusId, sgId, clusterInfo, changed>>

\* DescribeVpcEndpoints(default tag filters) returns.
FilterVPCEndpointByDefaultTags(p) ==
  /\ pass[p].pc = "FilterVPCEndpointByDefaultTags"
  /\ LET ps == pass[p]
         name == GenerateVPCEndpointName(clusterInfo.infraName, ResourceName)
         found == DescribeByTags(endpoints, clusterInfo.clusterTag, name)
         resp == [i \in 1..Len(found) |-> Snapshot(endpoints, found[i])]
     IN \/ pass' = [pass EXCEPT ![p] = Return(Log(ps, "error", 0, 0), "ApiError")]
        \/ pass' = [pass EXCEPT ![p] = afterTagSearch(Log(ps, "ok", Len(resp), 0), resp)]
  /\ UNCHANGED <<sel, dns, rl, endpoints, nextId, privateSubnets, statusId, sgId, clusterInfo, changed>>

\* CreateVpcEndpoint returns: "ok", "error" (nothing created), or "lost"
\* (created, but the caller sees an error: timeout or cancellation in flight).
CreateVpcEndpoint(p) ==
  /\ pass[p].pc = "CreateVpcEndpoint"
  /\ nextId <= MaxEndpoints
  /\ LET ps == pass[p]
         name == GenerateVPCEndpointName(clusterInfo.infraName, ResourceName)
         ep == CreateDefaultInterfaceVPCEndpoint(name, clusterInfo.vpcId, clusterInfo.clusterTag)
         eps == [endpoints EXCEPT ![nextId] = ep]
     IN \/ /\ pass' = [pass EXCEPT ![p] = Return(Log(ps, "error", 0, 0), "CreateFailed")]
           /\ UNCHANGED <<sel, dns, rl, endpoints, nextId>>
        \/ /\ clusterInfo.vpcId # ""
           /\ endpoints' = eps
           /\ nextId' = nextId + 1
           /\ \/ pass' = [pass EXCEPT ![p] =
                           located([Log(ps, "ok", 0, nextId) EXCEPT !.applied = TRUE],
                                   Snapshot(eps, nextId))]
              \/ pass' = [pass EXCEPT ![p] =
                           Return([Log(ps, "lost", 0, nextId) EXCEPT !.applied = TRUE],
                                  "CreateFailed")]
  /\ UNCHANGED <<sel, dns, rl, privateSubnets, statusId, sgId, clusterInfo, changed>>

\* DescribeSubnets (private subnets of the cluster) returns; lines 213-224 and
\* 182-200 run up to the first modify call.
DescribePrivateSubnets(p) ==
  /\ pass[p].pc = "DescribePrivateSubnets"
  /\ LET ps == pass[p]
         d == diffVpcEndpointSubnets(ps.vpce, privateSubnets)
         todo == ensureVpcEndpointSubnetsCalls(d[1], d[2])
         ok == Log(ps, "ok", 0, 0)
     IN \/ pass' = [pass EXCEPT ![p] = Return(Log(ps, "error", 0, 0), "ApiError")]
        \/ pass' = [pass EXCEPT ![p] =
                      IF todo = <<>> THEN ensureVpcEndpointSecurityGroups(ok)
                      ELSE [ok EXCEPT !.pc = "ModifySubnets", !.todo = todo]]
  /\ UNCHANGED <<sel, dns, rl, endpoints, nextId, privateSubnets, statusId, sgId, clusterInfo, changed>>

\* The cloud applies one ModifyVpcEndpoint request.
ApplyModify(ep, m) ==
  CASE m.kind = "RemoveSubnetIds" -> [ep EXCEPT !.subnets = @ \ m.ids]
    [] m.kind = "AddSubnetIds" -> [ep EXCEPT !.subnets = @ \cup m.ids]
    [] m.kind = "AddSecurityGroupIds" -> [ep EXCEPT !.groups = @ \cup m.ids]
    [] m.kind = "RemoveSecurityGroupIds" -> [ep EXCEPT !.groups = @ \ m.ids]

\* ModifyVpcEndpoint returns: "ok", "error" (not applied) or "lost" (applied,
\* error seen by the caller).  On success the function goes on to its next
\* modify call, or returns nil and the pass goes on.
ModifyVpcEndpoint(p) ==
  /\ pass[p].pc \in {"ModifySubnets", "ModifySecurityGroups"}
  /\ LET ps == pass[p]
         m == Head(ps.todo)
         id == ps.vpce.id
         rest == Tail(ps.todo)
     IN \/ /\ pass' = [pass EXCEPT ![p] = Return(Log(ps, "error", 0, id), "ApiError")]
           /\ UNCHANGED endpoints
        \/ /\ endpoints[id].exists
           /\ endpoints' = [endpoints EXCEPT ![id] = ApplyModify(@, m)]
           /\ \/ pass' = [pass EXCEPT ![p] =
                           LET ok == [Log(ps, "ok", 0, id) EXCEPT !.applied = TRUE, !.todo = rest]
                           IN IF rest # <<>> THEN ok
                              ELSE IF ps.pc = "ModifySubnets"
                                   THEN ensureVpcEndpointSecurityGroups(ok)
                                   ELSE Return(ok, "None")]
              \/ pass' = [pass EXCEPT ![p] =
                           Return([Log(ps, "lost", 0, id) EXCEPT !.applied = TRUE], "ApiError")]
  /\ UNCHANGED <<sel, dns, rl, nextId, privateSubnets, statusId, sgId, clusterInfo, changed>>

\* The caller cancels the context while the pass waits for an API call.
Cancel(p) ==
  /\ pass[p].pc \notin {"idle", "returned"}
  /\ pass' = [pass EXCEPT ![p] = Return(Log(@, "cancelled", 0, PendingCall(@).id), "Cancelled")]
  /\ UNCHANGED <<sel, dns, rl, endpoints, nextId, privateSubnets, statusId, sgId, clusterInfo, changed>>

\* The controller records the located endpoint's id in the resource status.
RecordStatus(p) ==
  /\ pass[p].pc = "returned"
  /\ pass[p].vpce.id # 0
  /\ statusId # pass[p].vpce.id
  /\ statusId' = pass[p].vpce.id
  /\ UNCHANGED <<sel, dns, rl, endpoints, nextId, privateSubnets, sgId, clusterInfo, changed, pass>>

\* The recorded identifier is lost (status reset, resource restored).
LoseStatus ==
  /\ statusId # 0
  /\ \A p \in Procs : pass[p].pc \in {"idle", "returned"}
  /\ statusId' = 0
  /\ changed' = TRUE
  /\ UNCHANGED <<sel, dns, rl, endpoints, nextId, privateSubnets, sgId, clusterInfo, pass>>

\* ====================================================== vpc_endpoint.go
\* SelectVPCForVPCEndpoint, the placement selector.
Vpcs == {"v1", "v2", "v3"}
MaxInt == 2147483647              \* math.MaxInt (32-bit int)

Range(f) == {f[i] : i \in DOMAIN f}

RECURSIVE SumOver(_, _)
SumOver(f, S) ==
  IF S = {} THEN 0
  ELSE LET x == CHOOSE y \in S : TRUE IN f[x] + SumOver(f, S \ {x})

\* Candidate lists: the distinct VPC ids FilterVpcIdsByTags returns, or none.
CandidateLists ==
  {ids \in UNION {[1..n -> Vpcs] : n \in 0..Cardinality(Vpcs)} :
     \A i, j \in DOMAIN ids : i # j => ids[i] # ids[j]}

\* One result page: how many of its endpoints lie in each VPC.  The request
\* filters on vpc-id, so a page holds endpoints of candidate VPCs only.
PagesFor(ids) ==
  {pg \in [Vpcs -> 0..MaxPageLen] :
     /\ SumOver(pg, Vpcs) <= MaxPageLen
     /\ \A v \in Vpcs : v \notin Range(ids) => pg[v] = 0}

IdleSel ==
  [pc |-> "idle", ids |-> <<>>, pages |-> <<>>, next |-> 1, vpcePerVpc |-> <<>>,
   result |-> "", err |-> "None", run |-> 0, first |-> [result |-> "", err |-> "None"],
   apiCalls |-> 0]

\* A paginator that reports no further page after the first one.
HasMorePages_firstOnly(next, pages) == next <= 1

\* paginator.HasMorePages(), line 58: next is the index of the page to fetch.
HasMorePages(next, pages) == next <= Len(pages)

\* Lines 64-66: every endpoint of the page increments its VPC's counter.
countPage(vpcePerVpc, pg) ==
  LET keys == DOMAIN vpcePerVpc \cup {v \in Vpcs : pg[v] > 0}
  IN [v \in keys |-> (IF v \in DOMAIN vpcePerVpc THEN vpcePerVpc[v] ELSE 0) + pg[v]]

RECURSIVE minLoop(_, _, _, _, _)
minLoop(order, vpcePerVpc, i, minVpcId, minVpceConsumed) ==
  IF i > Len(order) THEN minVpcId
  ELSE IF vpcePerVpc[order[i]] < minVpceConsumed
       THEN minLoop(order, vpcePerVpc, i + 1, order[i], vpcePerVpc[order[i]])
       ELSE minLoop(order, vpcePerVpc, i + 1, minVpcId, minVpceConsumed)

\* A loop that keeps whatever key it saw last.
selectMinimum_lastSeen(order, vpcePerVpc) == order[Len(order)]

\* Lines 50-51 and 69-74: the minimum search, visiting the map's keys in order.
selectMinimum(order, vpcePerVpc) == minLoop(order, vpcePerVpc, 1, "", MaxInt)

\* The orders in which a range over a Go map can visit the keys: all of them.
IterationOrders(keys) ==
  {o \in [1..Cardinality(keys) -> keys] : \A i, j \in DOMAIN o : i # j => o[i] # o[j]}

\* A selector that takes an empty candidate list for a valid input.
noCandidates_never(ids) == FALSE

\* Line 37: the candidate list is empty.
noCandidates(ids) == Len(ids) = 0

\* Lines 36-57: the call up to the first NextPage.
SelectVPCForVPCEndpoint ==
  /\ sel.pc \in {"idle", "returned"}
  /\ sel.run < MaxRuns
  /\ LET s0 == [sel EXCEPT !.run = @ + 1,
                           !.first = [result |-> sel.result, err |-> sel.err],
                           !.result = "", !.err = "None", !.next = 1,
                           !.apiCalls = 0]
     IN sel' = IF noCandidates(sel.ids)
               THEN [s0 EXCEPT !.pc = "returned", !.err = "InvalidInput"]
               ELSE [s0 EXCEPT !.pc = "NextPage",
                               !.vpcePerVpc = [v \in Range(sel.ids) |-> 0]]
  /\ UNCHANGED <<reconcilerVars, dns, rl>>

\* paginator.NextPage returns (lines 58-80): an error, or a page to count;
\* after the last page the minimum is searched and returned.
NextPage ==
  /\ sel.pc = "NextPage"
  /\ \/ sel' = [sel EXCEPT !.pc = "returned", !.err = "ApiError", !.apiCalls = @ + 1]
     \/ LET counted == countPage(sel.vpcePerVpc, sel.pages[sel.next])
            s1 == [sel EXCEPT !.vpcePerVpc = counted, !.next = @ + 1,
                              !.apiCalls = @ + 1]
        IN IF HasMorePages(s1.next, sel.pages) THEN sel' = s1
           ELSE \E order \in IterationOrders(DOMAIN counted) :
                  LET minVpcId == selectMinimum(order, counted)
                  IN sel' = IF minVpcId = ""
                            THEN [s1 EXCEPT !.pc = "returned", !.err = "NoSelection"]
                            ELSE [s1 EXCEPT !.pc = "returned", !.result = minVpcId]
  /\ UNCHANGED <<reconcilerVars, dns, rl>>


\* ============================================ helpers.go, generateRoute53Record
MaxDnsEntries == 2
DnsNames == {"a", "b"}
EndpointStates == {"pending", "available", "deleting", "deleted", "unknown"}

NoObserved == [exists |-> FALSE, state |-> "unknown", entries |-> <<>>]

ObservedEndpoints ==
  {NoObserved} \cup
  [exists : {TRUE}, state : EndpointStates,
   entries : UNION {[1..n -> DnsNames] : n \in 0..MaxDnsEntries}]

IdleDns ==
  [pc |-> "idle", id |-> 0, ep |-> NoObserved, out |-> "none", apiCalls |-> 0,
   record |-> "", err |-> "None"]

\* A synthesizer that takes any endpoint state for a ready one.
route53RecordOf_anyState(resp) ==
  IF Len(resp) = 0 THEN [record |-> "", err |-> "None"]
  ELSE IF Len(resp[1].entries) = 0 THEN [record |-> "", err |-> "NoDnsEntries"]
       ELSE [record |-> resp[1].entries[1], err |-> "None"]

\* generateRoute53Record, lines 286-302, on the endpoints of the response
\* (none for a nil response): record "" is the nil record.
route53RecordOf(resp) ==
  IF Len(resp) = 0 THEN [record |-> "", err |-> "None"]
  ELSE IF resp[1].state # "available" THEN [record |-> "", err |-> "NotAvailable"]
       ELSE IF Len(resp[1].entries) = 0 THEN [record |-> "", err |-> "NoDnsEntries"]
            ELSE [record |-> resp[1].entries[1], err |-> "None"]

\* A synthesizer that goes on with an empty recorded identifier.
statusIdMissing_never(id) == FALSE

\* generateRoute53Record, line 277: the recorded identifier is empty.
statusIdMissing(id) == id = 0

\* generateRoute53Record, lines 276-281, and DescribeSingleVPCEndpointById,
\* lines 118-121 (no API call for an empty id).
generateRoute53Record ==
  /\ dns.pc = "idle"
  /\ dns' = IF statusIdMissing(dns.id)
            THEN [dns EXCEPT !.pc = "returned", !.err = "MissingId"]
            ELSE IF dns.id = 0
                 THEN LET r == route53RecordOf(<<>>)
                      IN [dns EXCEPT !.pc = "returned", !.record = r.record, !.err = r.err]
                 ELSE [dns EXCEPT !.pc = "DescribeSingleVPCEndpointById"]
  /\ UNCHANGED <<reconcilerVars, sel, rl>>

\* DescribeVpcEndpoints(VpcEndpointIds = [id]) returns; lines 282-302 run.
DnsDescribeReturns ==
  /\ dns.pc = "DescribeSingleVPCEndpointById"
  /\ \E out \in {"error", "NotFound", "ok"} :
       /\ out = "NotFound" => ~dns.ep.exists
       /\ out = "ok" => dns.ep.exists
       /\ LET d == describeSingleResult(out, <<dns.ep>>)
              r == route53RecordOf(d.resp)
          IN dns' = IF d.err # "None"
                    THEN [dns EXCEPT !.pc = "returned", !.out = out, !.apiCalls = @ + 1,
                                     !.err = d.err]
                    ELSE [dns EXCEPT !.pc = "returned", !.out = out, !.apiCalls = @ + 1,
                                     !.record = r.record, !.err = r.err]
  /\ UNCHANGED <<reconcilerVars, sel, rl>>

\* ------------------------------------------------ defaultAVORateLimiter
\* The limiter of the controller's work queue.  Durations are in milliseconds.
MaxFailures == 24                 \* consecutive failures of one item
MaxDebt == 12                     \* tokens reserved beyond the burst
Items == {"a", "b"}               \* the resources in the queue

Second == 1000                    \* time.Second
BaseDelay == 1 * Second           \* helpers.go line 67
MaxDelay == 5000 * Second         \* helpers.go line 67
Qps == 10                         \* helpers.go line 69
Burst == 100                      \* helpers.go line 69

Min(a, b) == IF a <= b THEN a ELSE b
Max(a, b) == IF a >= b THEN a ELSE b

\* baseDelay * 2^exp as the limiter computes it: exact while it fits the
\* integer range, and MaxInt once it is beyond any duration.
RECURSIVE Backoff(_, _)
Backoff(baseDelay, exp) ==
  IF exp = 0 THEN baseDelay
  ELSE LET b == Backoff(baseDelay, exp - 1)
       IN IF b > MaxInt \div 2 THEN MaxInt ELSE 2 * b

\* workqueue.ItemExponentialFailureRateLimiter.When for an item that has
\* failed exp times: the backoff, replaced by maxDelay when it is out of
\* range or above maxDelay.
NewItemExponentialFailureRateLimiter(baseDelay, maxDelay, exp) ==
  LET backoff == Backoff(baseDelay, exp)
  IN IF backoff >= MaxInt THEN maxDelay
     ELSE IF backoff > maxDelay THEN maxDelay
     ELSE backoff

\* workqueue.BucketRateLimiter.When, i.e. Reserve().Delay() of a limiter of
\* qps tokens per second, once the reservation left `tokens` in the bucket.
BucketRateLimiter(qps, tokens) ==
  IF tokens < 0 THEN (0 - tokens) * (Second \div qps) ELSE 0

\* workqueue.MaxOfRateLimiter.When.
NewMaxOfRateLimiter(itemDelay, bucketDelay) == Max(itemDelay, bucketDelay)

\* The two limiters composed the other way round.
defaultAVORateLimiter_minOf(exp, tokens) ==
  LET itemDelay == NewItemExponentialFailureRateLimiter(BaseDelay, MaxDelay, exp)
      bucketDelay == BucketRateLimiter(Qps, tokens)
  IN [itemDelay |-> itemDelay, bucketDelay |-> bucketDelay,
      delay |-> Min(itemDelay, bucketDelay)]

\* defaultAVORateLimiter, lines 65-71: the delay of a retry of an item that
\* failed exp times, with `tokens` left in the bucket after the reservation.
defaultAVORateLimiter(exp, tokens) ==
  LET itemDelay == NewItemExponentialFailureRateLimiter(BaseDelay, MaxDelay, exp)
      bucketDelay == BucketRateLimiter(Qps, tokens)
  IN [itemDelay |-> itemDelay, bucketDelay |-> bucketDelay,
      delay |-> NewMaxOfRateLimiter(itemDelay, bucketDelay)]

NoRetry == [item |-> "", exp |-> 0, itemDelay |-> 0, bucketDelay |-> 0, delay |-> 0]

\* rate.NewLimiter(10, 100) starts with a full bucket.
IdleLimiter == [failures |-> [i \in Items |-> 0], tokens |-> Burst, last |-> NoRetry]

\* A pass of item failed and the queue asks the limiter when to retry it:
\* the item's failure count goes up and one token is reserved.
When(item) ==
  /\ rl.failures[item] < MaxFailures
  /\ rl.tokens > 0 - MaxDebt
  /\ LET exp == rl.failures[item]
         tokens == rl.tokens - 1
         d == defaultAVORateLimiter(exp, tokens)
     IN rl' = [failures |-> [rl.failures EXCEPT ![item] = exp + 1],
               tokens |-> tokens,
               last |-> [item |-> item, exp |-> exp, itemDelay |-> d.itemDelay,
                         bucketDelay |-> d.bucketDelay, delay |-> d.delay]]
  /\ UNCHANGED <<reconcilerVars, sel, dns>>

\* A pass of item succeeded: the queue forgets the item's failures.
Forget(item) ==
  /\ rl.failures[item] > 0
  /\ rl' = [rl EXCEPT !.failures[item] = 0, !.last = NoRetry]
  /\ UNCHANGED <<reconcilerVars, sel, dns>>

\* A tenth of a second passes: the bucket gains one token, up to the burst.
Refill ==
  /\ rl.tokens < Burst
  /\ rl' = [rl EXCEPT !.tokens = rl.tokens + 1, !.last = NoRetry]
  /\ UNCHANGED <<reconcilerVars, sel, dns>>

\* ------------------------------------------------------------------- Init
TaggedOrNot == {{}, GenerateAwsTags(GenerateVPCEndpointName(TrueInfraName, ResourceName), TrueClusterTag)}

InitEndpoint ==
  {NoEndpoint} \cup
  [exists : {TRUE}, tags : TaggedOrNot, subnets : SUBSET Subnets, groups : SUBSET Groups]

\* A second pre-existing endpoint (the ambiguous twin or a foreign endpoint).
InitEndpoint2 ==
  {NoEndpoint} \cup
  [exists : {TRUE}, tags : TaggedOrNot, subnets : {{"s1", "s2"}}, groups : {{"g1"}}]

InitCommon ==
  /\ nextId = FirstNewId
  /\ privateSubnets \in SUBSET Subnets
  /\ sgId \in Groups
  /\ changed = FALSE
  /\ pass = [p \in Procs |-> IdlePass]

Init ==
  /\ InitCommon
  /\ sel = IdleSel
  /\ dns = IdleDns
  /\ rl = IdleLimiter
  /\ \E e1 \in InitEndpoint, e2 \in InitEndpoint2 :
       endpoints = [id \in EndpointIds |->
                      IF id = 1 THEN e1 ELSE IF id = 2 THEN e2 ELSE NoEndpoint]
  /\ statusId \in {0} \cup PreIds
  /\ \E level \in {0, 2, 3, 5} : clusterInfo = clusterInfoAt(level)

StartPass(p) == StartPassUpTo(p, MaxPasses)

Step(p) ==
  \/ StartPass(p)
  \/ DescribeSingleVPCEndpointById(p)
  \/ FilterVPCEndpointByDefaultTags(p)
  \/ CreateVpcEndpoint(p)
  \/ DescribePrivateSubnets(p)
  \/ ModifyVpcEndpoint(p)
  \/ Cancel(p)
  \/ RecordStatus(p)

\* One process: the external trigger serializes the passes of a resource.
Next ==
  \/ Step(1)
  \/ LoseStatus

Spec == Init /\ [][Next]_vars

\* Two processes reconcile the same resource with no coordination.
InitConc ==
  /\ InitCommon
  /\ sel = IdleSel
  /\ dns = IdleDns
  /\ rl = IdleLimiter
  /\ \E e1 \in {NoEndpoint,
                 [exists |-> TRUE, tags |-> {}, subnets |-> {"s1"}, groups |-> {"g2"}]} :
       endpoints = [id \in EndpointIds |-> IF id = 1 THEN e1 ELSE NoEndpoint]
  /\ statusId \in {0, 1}
  /\ clusterInfo = clusterInfoAt(5)

StartPassConc(p) == StartPassUpTo(p, MaxConcPasses)

StepConc(p) ==
  \/ StartPassConc(p)
  \/ DescribeSingleVPCEndpointById(p)
  \/ FilterVPCEndpointByDefaultTags(p)
  \/ CreateVpcEndpoint(p)
  \/ DescribePrivateSubnets(p)
  \/ ModifyVpcEndpoint(p)
  \/ Cancel(p)
  \/ RecordStatus(p)

NextConc == \E p \in Procs : StepConc(p)

SpecConc == InitConc /\ [][NextConc]_vars

\* How many fields of the cluster context are populated.
Populated(ci) == Cardinality({f \in DOMAIN ci : ci[f] # ""})

\* parseClusterInfo, line 77: the reconciler's context is replaced by an empty
\* struct, in place and without a lock, before anything is looked up.
parseClusterInfo ==
  /\ clusterInfo # clusterInfoAt(0)
  /\ clusterInfo' = clusterInfoAt(0)
  /\ UNCHANGED <<endpoints, nextId, privateSubnets, statusId, sgId, changed, pass,
                 sel, dns, rl>>

\* parseClusterInfo, lines 79-122: the next lookup succeeded and its field is
\* assigned.  A lookup that fails returns and leaves the fields after it empty.
parseClusterInfoAssigns ==
  /\ Populated(clusterInfo) < 5
  /\ clusterInfo' = clusterInfoAt(Populated(clusterInfo) + 1)
  /\ UNCHANGED <<endpoints, nextId, privateSubnets, statusId, sgId, changed, pass,
                 sel, dns, rl>>

\* One pass at a time, with parseClusterInfo refreshing the shared context on
\* behalf of another resource's pass.
NextRefresh ==
  \/ StepConc(1)
  \/ parseClusterInfo
  \/ parseClusterInfoAssigns

SpecRefresh == InitConc /\ [][NextRefresh]_vars

\* The reconciler idle, with nothing in the cloud.
InitIdleReconciler ==
  /\ nextId = FirstNewId
  /\ privateSubnets = {}
  /\ sgId = "g1"
  /\ changed = FALSE
  /\ pass = [p \in Procs |-> IdlePass]
  /\ endpoints = [id \in EndpointIds |-> NoEndpoint]
  /\ statusId = 0
  /\ clusterInfo = clusterInfoAt(5)

\* The selector alone: the reconciler stays idle.
InitSelect ==
  /\ InitIdleReconciler
  /\ dns = IdleDns
  /\ rl = IdleLimiter
  /\ \E ids \in CandidateLists :
       \E pages \in UNION {[1..n -> PagesFor(ids)] : n \in 1..MaxPages} :
         sel = [IdleSel EXCEPT !.ids = ids, !.pages = pages]

NextSelect ==
  \/ SelectVPCForVPCEndpoint
  \/ NextPage

SpecSelect == InitSelect /\ [][NextSelect]_vars

\* The DNS record synthesizer alone.
InitDns ==
  /\ InitIdleReconciler
  /\ sel = IdleSel
  /\ rl = IdleLimiter
  /\ \E id \in {0, 1}, ep \in ObservedEndpoints : dns = [IdleDns EXCEPT !.id = id, !.ep = ep]

NextDns ==
  \/ generateRoute53Record
  \/ DnsDescribeReturns

SpecDns == InitDns /\ [][NextDns]_vars

\* The rate limiter on its own.
InitLimiter ==
  /\ InitIdleReconciler
  /\ sel = IdleSel
  /\ dns = IdleDns
  /\ rl = IdleLimiter

NextLimiter ==
  \/ \E item \in Items : When(item)
  \/ \E item \in Items : Forget(item)
  \/ Refill

SpecLimiter == InitLimiter /\ [][NextLimiter]_vars

\* ================================================================ claims
\* The calls of a pass in issue order: the returned ones, then the pending one.
Issued(ps) ==
  IF ps.pc \in {"idle", "returned"} THEN ps.calls
  ELSE Append(ps.calls, PendingCall(ps))

IsModify(c, kind) == c.op = "ModifyVpcEndpoint" /\ c.kind = kind

\* Call of the given kind at position i of cs, preceded by a successful call
\* of kind `first`.
PrecededByOk(cs, i, first) ==
  \E j \in 1..(i - 1) : IsModify(cs[j], first) /\ cs[j].out = "ok"

SubnetDiffOf(ps) == StringSliceTwoWayDiff(ps.vpce.subnets, privateSubnets)
SgDiffOf(ps) == StringSliceTwoWayDiff(ps.vpce.groups, {sgId})

\* C1: in a pass with subnets to remove and subnets to add, the call adding
\* subnets is issued only after the call removing subnets returned successfully.
SubnetRemovalBeforeAddition ==
  \A p \in Procs :
    LET cs == Issued(pass[p])
        d == SubnetDiffOf(pass[p])
    IN \A i \in 1..Len(cs) :
         (IsModify(cs[i], "AddSubnetIds") /\ d[1] # {} /\ d[2] # {})
           => PrecededByOk(cs, i, "RemoveSubnetIds")

SubnetRemovalThenAdditionSeen ==
  \E p \in Procs :
    LET cs == pass[p].calls
    IN /\ pass[p].vpce.subnets = {"s1", "s2"}
       /\ privateSubnets = {"s2", "s3"}
       /\ \E i \in 1..Len(cs), j \in 1..Len(cs) :
            /\ j < i
            /\ IsModify(cs[j], "RemoveSubnetIds") /\ cs[j].ids = {"s1"} /\ cs[j].out = "ok"
            /\ IsModify(cs[i], "AddSubnetIds") /\ cs[i].ids = {"s3"} /\ cs[i].out = "ok"

\* C2 (as claimed): in a pass with security groups to remove and to add, the
\* removal request is issued before the addition request.
SgRemovalBeforeAddition ==
  \A p \in Procs :
    LET cs == Issued(pass[p])
        d == SgDiffOf(pass[p])
    IN \A i \in 1..Len(cs) :
         (IsModify(cs[i], "AddSecurityGroupIds") /\ d[1] # {} /\ d[2] # {})
           => \E j \in 1..(i - 1) : IsModify(cs[j], "RemoveSecurityGroupIds")

\* C2 (amended): in a pass with security groups to remove and to add, the call
\* removing groups is issued only after the call adding the expected group
\* returned successfully.
SgAdditionBeforeRemoval ==
  \A p \in Procs :
    LET cs == Issued(pass[p])
        d == SgDiffOf(pass[p])
    IN \A i \in 1..Len(cs) :
         (IsModify(cs[i], "RemoveSecurityGroupIds") /\ d[1] # {} /\ d[2] # {})
           => PrecededByOk(cs, i, "AddSecurityGroupIds")

SgAdditionThenRemovalSeen ==
  \E p \in Procs :
    LET cs == pass[p].calls
        d == SgDiffOf(pass[p])
    IN /\ d[1] # {} /\ d[2] # {}
       /\ \E i \in 1..Len(cs), j \in 1..Len(cs) :
            /\ j < i
            /\ IsModify(cs[j], "AddSecurityGroupIds") /\ cs[j].ids = d[1] /\ cs[j].out = "ok"
            /\ IsModify(cs[i], "RemoveSecurityGroupIds") /\ cs[i].ids = d[2] /\ cs[i].out = "ok"

\* C3: a pass that follows a pass which returned nil, with no change from
\* outside in between, issues no creating, modifying or deleting call.
SecondPassIssuesNoMutation ==
  \A p \in Procs :
    pass[p].prevClean => Mutations(Issued(pass[p])) = {}

SecondPassAfterMutatingPass ==
  \E p \in Procs :
    /\ pass[p].prevClean /\ pass[p].prevMutated
    /\ pass[p].pc = "returned" /\ pass[p].err = "None"

\* What the two lookups of the locator yielded in this pass.
IdLookupYieldedNothing(ps) ==
  \/ ps.rid = 0
  \/ \E i \in 1..Len(ps.calls) : ps.calls[i].kind = "ById" /\ ps.calls[i].out = "NotFound"

TagSearchFoundNothing(ps) ==
  \E i \in 1..Len(ps.calls) :
    ps.calls[i].kind = "ByTags" /\ ps.calls[i].out = "ok" /\ ps.calls[i].n = 0

Creations(cs) == {i \in 1..Len(cs) : cs[i].op = "CreateVpcEndpoint"}

\* C4: when the lookup by the recorded id and the search by default tags both
\* yield nothing, the locator issues exactly one CreateVpcEndpoint call, which
\* carries the synthesized name and the cluster tag, and when that call
\* succeeds the endpoint it created is the one the locator returns.
LocatorCreatesExactlyOnce ==
  \A p \in Procs :
    LET ps == pass[p]
        cs == Issued(ps)
        name == GenerateVPCEndpointName(clusterInfo.infraName, ResourceName)
    IN (IdLookupYieldedNothing(ps) /\ TagSearchFoundNothing(ps))
         => /\ Cardinality(Creations(cs)) = 1
            /\ \A i \in Creations(cs) :
                 /\ name # "" /\ cs[i].kind = name
                 /\ <<"Name", name>> \in cs[i].tags
                 /\ \E t \in cs[i].tags : t[1] = clusterInfo.clusterTag /\ t[1] # ""
                 /\ cs[i].out = "ok" =>
                      /\ ps.vpce.id = cs[i].id
                      /\ ps.vpce.tags = cs[i].tags
                      /\ endpoints[cs[i].id].exists
                      /\ endpoints[cs[i].id].tags = cs[i].tags

LocatorCreatedAfterStaleId ==
  \E p \in Procs :
    LET ps == pass[p]
    IN /\ ps.rid # 0 /\ IdLookupYieldedNothing(ps) /\ TagSearchFoundNothing(ps)
       /\ \E i \in Creations(ps.calls) : ps.calls[i].out = "ok" /\ ps.vpce.id = ps.calls[i].id

\* C5: each locator step is attempted only if every earlier step yielded
\* nothing: an endpoint returned by the id lookup is the result, with no tag
\* search and no creation; a tag search happens only after an empty id
\* lookup; a creation only after both yielded nothing.
LocatorShortCircuits ==
  \A p \in Procs :
    LET ps == pass[p]
        cs == Issued(ps)
        byId == {i \in 1..Len(cs) : cs[i].kind = "ById" /\ cs[i].out = "ok"}
        byTags == {i \in 1..Len(cs) : cs[i].kind = "ByTags"}
        tagHits == {i \in byTags : cs[i].out = "ok" /\ cs[i].n > 0}
    IN /\ byId # {} => /\ byTags = {} /\ Creations(cs) = {}
                       /\ ps.vpce.id = ps.rid
       /\ byTags # {} => IdLookupYieldedNothing(ps)
       /\ tagHits # {} => Creations(cs) = {}
       /\ Creations(cs) # {} =>
            /\ IdLookupYieldedNothing(ps)
            /\ TagSearchFoundNothing(ps) \/ clusterInfo.clusterTag = ""

LocatorFoundById ==
  \E p \in Procs :
    LET ps == pass[p]
    IN /\ ps.pc = "returned" /\ ps.err = "None"
       /\ \E i \in 1..Len(ps.calls) : ps.calls[i].kind = "ById" /\ ps.calls[i].out = "ok"
       /\ \E id \in EndpointIds :
            id # ps.rid /\ endpoints[id].exists /\ endpoints[id].tags # {}

\* C6: a pass that runs to completion without error leaves the located
\* endpoint with exactly the cluster's private subnets and exactly the
\* recorded security group, also when the pass before it was cancelled or
\* failed after some of its mutating calls had been applied.
CompletedPassConverges ==
  \A p \in Procs :
    (pass[p].pc = "returned" /\ pass[p].err = "None")
      => /\ endpoints[pass[p].vpce.id].exists
         /\ endpoints[pass[p].vpce.id].subnets = privateSubnets
         /\ endpoints[pass[p].vpce.id].groups = {sgId}

RecoveredAfterPartialPass ==
  \E p \in Procs :
    /\ pass[p].prevPartial
    /\ pass[p].pc = "returned" /\ pass[p].err = "None"
    /\ Mutations(pass[p].calls) # {}

TaggedEndpoints ==
  {id \in EndpointIds :
     /\ endpoints[id].exists
     /\ MatchesDefaultTags(endpoints[id].tags, TrueClusterTag,
                           GenerateVPCEndpointName(TrueInfraName, ResourceName))}

\* C7: whatever the interleaving of the API calls of two uncoordinated
\* processes reconciling the same resource, at most one endpoint carries the
\* resource's default tags.
AtMostOneTaggedEndpoint == Cardinality(TaggedEndpoints) <= 1

\* C8: when the search by default tags returns more than one endpoint, the
\* locator reports an ambiguity and adopts none of the matches.
AmbiguityIsSurfaced ==
  \A p \in Procs :
    LET ps == pass[p]
    IN (\E i \in 1..Len(ps.calls) : ps.calls[i].kind = "ByTags" /\ ps.calls[i].n > 1)
         => /\ ps.vpce = NoVpce
            /\ ps.pc = "returned" /\ ps.err = "Ambiguous"

\* The endpoints of VPC v over all the result pages.
RECURSIVE TotalUpTo(_, _)
TotalUpTo(v, n) == IF n = 0 THEN 0 ELSE sel.pages[n][v] + TotalUpTo(v, n - 1)

Total(v) == TotalUpTo(v, Len(sel.pages))

IsMinimal(v) ==
  /\ v \in Range(sel.ids)
  /\ \A w \in Range(sel.ids) : Total(v) <= Total(w)

SelectorSucceeded == sel.pc = "returned" /\ sel.err = "None"

\* C9: for a non-empty candidate list and any distribution of the endpoints
\* over the result pages, the selector returns a candidate whose endpoint
\* count summed over all pages is minimal among the candidates; it fails only
\* when a page request fails.
SelectorReturnsLeastLoaded ==
  /\ SelectorSucceeded => IsMinimal(sel.result)
  /\ (sel.pc = "returned" /\ Len(sel.ids) > 0) => sel.err \in {"None", "ApiError"}

SelectorCountedSecondPage ==
  /\ SelectorSucceeded
  /\ Len(sel.pages) >= 2
  /\ \E w \in Range(sel.ids) :
       /\ sel.pages[1][w] < sel.pages[1][sel.result]
       /\ Total(w) > Total(sel.result)

FirstMinimum ==
  sel.ids[CHOOSE i \in DOMAIN sel.ids :
            /\ IsMinimal(sel.ids[i])
            /\ \A j \in 1..(i - 1) : ~IsMinimal(sel.ids[j])]

BothRunsSucceeded ==
  /\ SelectorSucceeded /\ sel.run >= 2
  /\ sel.first.err = "None" /\ sel.first.result # ""

\* C10 (as claimed): among the candidates of minimal count the selector
\* returns the one that comes first in the candidate list, and two runs on
\* the same input return the same identifier.
SelectorReturnsFirstMinimum ==
  /\ SelectorSucceeded => sel.result = FirstMinimum
  /\ BothRunsSucceeded => sel.first.result = sel.result

\* C10 (amended): two runs on the same input return candidates of the same,
\* minimal, count, and the same identifier when only one candidate has the
\* minimal count; which of several tied candidates is returned is not fixed.
SelectorRunsAgreeOnCount ==
  BothRunsSucceeded =>
    /\ IsMinimal(sel.first.result) /\ IsMinimal(sel.result)
    /\ Total(sel.first.result) = Total(sel.result)
    /\ Cardinality({v \in Range(sel.ids) : IsMinimal(v)}) = 1
         => sel.first.result = sel.result

SelectorTieResolvedBothWays ==
  /\ BothRunsSucceeded
  /\ sel.ids = <<"v1", "v2", "v3">>
  /\ Total("v1") = 3 /\ Total("v2") = 1 /\ Total("v3") = 1
  /\ sel.first.result = "v2" /\ sel.result = "v3"

\* C11: on an empty candidate list the selector fails with an input error
\* before any API call; a page request that fails ends the selection with
\* that error and no identifier.
SelectorRejectsEmptyAndPageError ==
  sel.pc = "returned" =>
    /\ Len(sel.ids) = 0 => /\ sel.err = "InvalidInput"
                           /\ sel.apiCalls = 0
                           /\ sel.result = ""
    /\ sel.err # "None" => sel.result = ""
    /\ sel.err = "ApiError" => sel.apiCalls = sel.next
    /\ sel.err = "InvalidInput" => Len(sel.ids) = 0

SelectorRejectedEmptyList ==
  /\ sel.pc = "returned" /\ sel.run = 1
  /\ Len(sel.ids) = 0 /\ sel.err = "InvalidInput"
  /\ sel.apiCalls = 0 /\ sel.result = ""

DnsObserved == dns.pc = "returned" /\ dns.out = "ok"

\* C12: for an observed endpoint the synthesizer returns an error whenever
\* the state is not `available`, whatever the DNS entries; an error when the
\* state is `available` and there is no DNS entry; and otherwise a record
\* whose value is the first entry's name.  A record is only produced for an
\* available endpoint with a DNS entry.
DnsRecordOnlyWhenReady ==
  /\ DnsObserved =>
       /\ dns.ep.state # "available" => dns.err # "None" /\ dns.record = ""
       /\ (dns.ep.state = "available" /\ Len(dns.ep.entries) = 0)
            => dns.err # "None" /\ dns.record = ""
       /\ (dns.ep.state = "available" /\ Len(dns.ep.entries) > 0)
            => dns.err = "None" /\ dns.record = dns.ep.entries[1]
  /\ dns.record # "" =>
       /\ DnsObserved
       /\ dns.ep.state = "available" /\ Len(dns.ep.entries) > 0

DnsPendingWithEntriesRejected ==
  /\ DnsObserved
  /\ dns.ep.state = "pending" /\ dns.ep.entries = <<"a", "b">>
  /\ dns.err = "NotAvailable" /\ dns.record = ""

\* C13 (as claimed): the synthesizer returns an error when the recorded
\* identifier is empty and when the endpoint with that identifier is not found.
DnsFailsWhenMissingOrNotFound ==
  (dns.pc = "returned" /\ (dns.id = 0 \/ dns.out = "NotFound")) => dns.err # "None"

\* C13 (amended): with an empty recorded identifier the synthesizer returns an
\* error without any API call; when the endpoint with the recorded identifier
\* is not found it returns no record and no error.
DnsFailsWhenMissingOnly ==
  dns.pc = "returned" =>
    /\ dns.id = 0 => dns.err = "MissingId" /\ dns.apiCalls = 0 /\ dns.record = ""
    /\ dns.out = "NotFound" => dns.err = "None" /\ dns.record = ""

DnsNotFoundReturnedNothing ==
  /\ dns.pc = "returned" /\ dns.id # 0 /\ ~dns.ep.exists
  /\ dns.out = "NotFound" /\ dns.err = "None" /\ dns.record = ""

\* The properties of a diff <<toAdd, toRemove>> of current set A against
\* desired set B.
IsTwoWayDiff(d, A, B) ==
  /\ d[1] = B \ A
  /\ d[2] = A \ B
  /\ (A \cup d[1]) \ d[2] = B
  /\ d[1] \cap d[2] = {}
  /\ A = B => d = <<{}, {}>>

\* C14: the diffs the synchronizer computes, of the endpoint's subnets against
\* the private subnets and of its groups against the recorded group, have
\* toAdd = B - A, toRemove = A - B, (A + toAdd) - toRemove = B, toAdd and
\* toRemove disjoint, and nothing to do when A = B; the modify calls carry
\* exactly these sets.
DiffIsTwoWay ==
  \A p \in Procs :
    LET ps == pass[p]
        cs == Issued(ps)
        A == ps.vpce.subnets
        G == ps.vpce.groups
    IN ps.vpce.id # 0 =>
         /\ IsTwoWayDiff(diffVpcEndpointSubnets(ps.vpce, privateSubnets), A, privateSubnets)
         /\ IsTwoWayDiff(diffVpcEndpointSecurityGroups(ps.vpce, sgId), G, {sgId})
         /\ \A i \in 1..Len(cs) :
              /\ IsModify(cs[i], "AddSubnetIds") => cs[i].ids = privateSubnets \ A
              /\ IsModify(cs[i], "RemoveSubnetIds") => cs[i].ids = A \ privateSubnets
              /\ IsModify(cs[i], "AddSecurityGroupIds") => cs[i].ids = {sgId} \ G
              /\ IsModify(cs[i], "RemoveSecurityGroupIds") => cs[i].ids = G \ {sgId}

DiffOfEmptyCurrentApplied ==
  \E p \in Procs :
    LET ps == pass[p]
    IN /\ ps.vpce.id # 0 /\ ps.vpce.subnets = {} /\ privateSubnets = Subnets
       /\ ps.vpce.groups = Groups
       /\ \E i \in 1..Len(ps.calls) :
            IsModify(ps.calls[i], "AddSubnetIds") /\ ps.calls[i].ids = Subnets
       /\ \E i \in 1..Len(ps.calls) :
            IsModify(ps.calls[i], "RemoveSecurityGroupIds") /\ ps.calls[i].ids = Groups \ {sgId}

\* C15: a NotFound result of the lookup by recorded identifier is absence,
\* and the locator goes on with the tag search; any other API error of the
\* id lookup or of the tag search is returned as it is, and the pass issues
\* no later call, in particular no creation.
LocatorPropagatesApiErrors ==
  \A p \in Procs :
    LET ps == pass[p]
        cs == Issued(ps)
    IN \A i \in 1..Len(cs) :
         /\ (cs[i].kind \in {"ById", "ByTags"} /\ cs[i].out = "error")
              => /\ i = Len(cs)
                 /\ ps.pc = "returned" /\ ps.err = "ApiError"
                 /\ ps.vpce = NoVpce
                 /\ Creations(cs) = {}
         /\ (cs[i].kind = "ById" /\ cs[i].out = "NotFound" /\ clusterInfo.clusterTag # "")
              => /\ Len(cs) > i
                 /\ cs[i + 1].kind = "ByTags"

LocatorTagSearchFailedAfterNotFound ==
  \E p \in Procs :
    LET ps == pass[p]
    IN /\ ps.pc = "returned" /\ ps.err = "ApiError"
       /\ Len(ps.calls) = 2
       /\ ps.calls[1].kind = "ById" /\ ps.calls[1].out = "NotFound"
       /\ ps.calls[2].kind = "ByTags" /\ ps.calls[2].out = "error"

\* C16 (as claimed): with an empty cluster tag the locator returns an error,
\* the subnet synchronizer returns an error, and no creating or modifying
\* call reaches the cloud.
EmptyClusterTagFailsLocator ==
  clusterInfo.clusterTag = "" =>
    \A p \in Procs :
      /\ Mutations(Issued(pass[p])) = {}
      /\ pass[p].pc = "returned" => pass[p].err # "None" /\ pass[p].vpce = NoVpce

\* C16 (amended): with an empty cluster tag every pass returns an error and
\* no creating or modifying call reaches the cloud: the subnet synchronizer
\* always returns an error before any API call, and the locator returns an
\* error unless the lookup by recorded identifier finds the endpoint, which
\* it then returns without error.
EmptyClusterTagFailsPass ==
  clusterInfo.clusterTag = "" =>
    \A p \in Procs :
      LET ps == pass[p]
          cs == Issued(ps)
      IN /\ Mutations(cs) = {}
         /\ \A i \in 1..Len(cs) : cs[i].kind = "ById"
         /\ ps.pc = "returned" => ps.err # "None"
         /\ ps.vpce # NoVpce =>
              /\ ps.vpce.id = ps.rid
              /\ \E i \in 1..Len(cs) : cs[i].kind = "ById" /\ cs[i].out = "ok"
              /\ ps.pc = "returned" /\ ps.err = "InvalidInput"
         /\ (ps.pc = "returned" /\ ps.vpce = NoVpce /\ IdLookupYieldedNothing(ps))
              => ps.err \in {"InvalidInput", "CreateFailed"}

EmptyClusterTagFoundById ==
  \E p \in Procs :
    /\ clusterInfo.clusterTag = ""
    /\ pass[p].pc = "returned" /\ pass[p].err = "InvalidInput"
    /\ pass[p].vpce.id # 0
    /\ pass[p].vpce.subnets # privateSubnets

Failed(c) == c.out \in {"error", "lost", "cancelled"}

SentOk(cs, kind, ids) ==
  ids # {} => \E i \in 1..Len(cs) : IsModify(cs[i], kind) /\ cs[i].ids = ids /\ cs[i].out = "ok"

\* C17: a pass whose synchronizer steps return nil has sent every non-empty
\* part of the subnet diff and of the security-group diff in a modify call
\* that succeeded; a modify call that fails is the last call of the pass,
\* which returns an error.
SuccessMeansDiffApplied ==
  \A p \in Procs :
    LET ps == pass[p]
        cs == ps.calls
    IN /\ (ps.pc = "returned" /\ ps.err = "None") =>
            /\ ps.vpce # NoVpce
            /\ SentOk(cs, "AddSubnetIds", SubnetDiffOf(ps)[1])
            /\ SentOk(cs, "RemoveSubnetIds", SubnetDiffOf(ps)[2])
            /\ SentOk(cs, "AddSecurityGroupIds", SgDiffOf(ps)[1])
            /\ SentOk(cs, "RemoveSecurityGroupIds", SgDiffOf(ps)[2])
       /\ \A i \in 1..Len(cs) :
            (cs[i].op = "ModifyVpcEndpoint" /\ Failed(cs[i])) =>
               i = Len(cs) /\ ps.pc = "returned" /\ ps.err # "None"

FirstModifyFailedWithBothParts ==
  \E p \in Procs :
    LET ps == pass[p]
        cs == ps.calls
    IN /\ ps.pc = "returned" /\ ps.err = "ApiError"
       /\ SubnetDiffOf(ps)[1] # {} /\ SubnetDiffOf(ps)[2] # {}
       /\ IsModify(cs[Len(cs)], "RemoveSubnetIds") /\ cs[Len(cs)].out = "error"
       /\ \A i \in 1..Len(cs) : ~IsModify(cs[i], "AddSubnetIds")

\* C18: within one pass at most one CreateVpcEndpoint call and at most one
\* modify call of each kind are issued, and a call that failed is the last
\* call of the pass.
NoInternalRetry ==
  \A p \in Procs :
    LET cs == Issued(pass[p])
    IN /\ Cardinality(Creations(cs)) <= 1
       /\ \A kind \in {"RemoveSubnetIds", "AddSubnetIds",
                       "AddSecurityGroupIds", "RemoveSecurityGroupIds"} :
            Cardinality({i \in 1..Len(cs) : IsModify(cs[i], kind)}) <= 1
       /\ \A i \in 1..Len(cs) :
            Failed(cs[i]) => i = Len(cs) /\ pass[p].pc = "returned" /\ pass[p].err # "None"

FailedAdditionAfterCreation ==
  \E p \in Procs :
    LET cs == pass[p].calls
    IN /\ pass[p].pc = "returned"
       /\ Cardinality(Creations(cs)) = 1
       /\ \E i \in 1..Len(cs) : IsModify(cs[i], "AddSubnetIds") /\ cs[i].out = "ok"
       /\ IsModify(cs[Len(cs)], "AddSecurityGroupIds") /\ Failed(cs[Len(cs)])

AppliedModifyLogged(id) ==
  \E p \in Procs :
    /\ Len(pass'[p].calls) = Len(pass[p].calls) + 1
    /\ LET c == pass'[p].calls[Len(pass'[p].calls)]
       IN c.op = "ModifyVpcEndpoint" /\ c.id = id /\ c.out \in {"ok", "lost"}

\* C19: an endpoint that comes into existence has no subnets and no security
\* groups attached, and the attachments of an existing endpoint change only
\* in a step in which a ModifyVpcEndpoint call for that endpoint is applied.
AttachmentsOnlyByModify ==
  [][\A id \in EndpointIds :
       /\ (~endpoints[id].exists /\ endpoints'[id].exists) =>
            endpoints'[id].subnets = {} /\ endpoints'[id].groups = {}
       /\ (endpoints[id].exists /\ endpoints'[id] # endpoints[id]) =>
            /\ endpoints'[id].exists /\ endpoints'[id].tags = endpoints[id].tags
            /\ AppliedModifyLogged(id)]_vars

CreatedEndpointBare ==
  \E p \in Procs :
    LET cs == pass[p].calls
    IN /\ cs # <<>>
       /\ cs[Len(cs)].op = "CreateVpcEndpoint" /\ cs[Len(cs)].out = "ok"
       /\ endpoints[cs[Len(cs)].id].exists
       /\ endpoints[cs[Len(cs)].id].subnets = {}
       /\ endpoints[cs[Len(cs)].id].groups = {}
       /\ privateSubnets # {}
       /\ pass[p].pc = "DescribePrivateSubnets"

\* min(base * 2^n, cap), written without the limiter's arithmetic.
ExpectedItemDelay(n) ==
  IF 2^n >= MaxDelay \div BaseDelay THEN MaxDelay ELSE BaseDelay * 2^n

\* C20: the delay of a retry after n consecutive failures is the larger of
\* the per-item delay min(1s * 2^n, 5000s), which never exceeds the cap and
\* never decreases in n, and the delay of the token bucket (a tenth of a
\* second for every token reserved beyond the burst).
RetryDelayIsStricterPolicy ==
  LET r == rl.last
  IN r.item # "" =>
       /\ r.itemDelay = ExpectedItemDelay(r.exp)
       /\ r.itemDelay >= BaseDelay /\ r.itemDelay <= MaxDelay
       /\ r.exp > 0 => defaultAVORateLimiter(r.exp - 1, rl.tokens).itemDelay <= r.itemDelay
       /\ r.bucketDelay = (IF rl.tokens < 0 THEN (0 - rl.tokens) * 100 ELSE 0)
       /\ r.delay >= r.itemDelay /\ r.delay >= r.bucketDelay
       /\ r.delay \in {r.itemDelay, r.bucketDelay}

RetryCappedWhileBucketInDebt ==
  /\ rl.last.item # ""
  /\ rl.last.exp >= 22
  /\ rl.last.itemDelay = MaxDelay
  /\ rl.last.bucketDelay > 0
  /\ rl.last.delay = MaxDelay

\* C21: with one pass in flight at a time, a CreateVpcEndpoint call is
\* pending only while no endpoint matches the default tags, and when at most
\* one of the endpoints that existed beforehand matches them, at most one
\* endpoint matches them after any sequence of passes.
SerializedPassesKeepOneTaggedEndpoint ==
  /\ \A p \in Procs : pass[p].pc = "CreateVpcEndpoint" => TaggedEndpoints = {}
  /\ Cardinality(TaggedEndpoints \cap PreIds) <= 1 => Cardinality(TaggedEndpoints) <= 1

AdoptedAfterAbortedCreation ==
  \E p \in Procs :
    LET ps == pass[p]
    IN /\ ps.n = 2 /\ ps.prevPartial
       /\ ps.rid = 0
       /\ TaggedEndpoints = {FirstNewId}
       /\ ps.vpce.id = FirstNewId
       /\ \E i \in 1..Len(ps.calls) :
            ps.calls[i].kind = "ByTags" /\ ps.calls[i].out = "ok" /\ ps.calls[i].n = 1
       /\ Creations(Issued(ps)) = {}

ByIdCalls(cs) == {i \in 1..Len(cs) : cs[i].kind = "ById"}

\* C22: a pass with an empty recorded identifier issues no lookup by id and
\* locates an endpoint only through the tag search or its own creation,
\* never one that fails the default tag filters; a lookup with a non-empty
\* identifier yields nothing (NotFound), an error, or exactly the one
\* endpoint with that identifier, and an answer of any other length ends
\* the pass with an error and no endpoint.
IdLookupNeverAdoptsUnrelated ==
  \A p \in Procs :
    LET ps == pass[p]
        cs == Issued(ps)
        name == GenerateVPCEndpointName(clusterInfo.infraName, ResourceName)
    IN /\ ps.rid = 0 =>
            /\ ByIdCalls(cs) = {}
            /\ ps.vpce # NoVpce =>
                 /\ MatchesDefaultTags(ps.vpce.tags, clusterInfo.clusterTag, name)
                 /\ \E i \in 1..Len(cs) :
                      \/ cs[i].kind = "ByTags" /\ cs[i].out = "ok" /\ cs[i].n > 0
                      \/ cs[i].op = "CreateVpcEndpoint" /\ cs[i].out = "ok"
                           /\ cs[i].id = ps.vpce.id
       /\ \A i \in ByIdCalls(cs) :
            /\ i = 1 /\ ps.rid # 0 /\ cs[i].id = ps.rid
            /\ cs[i].out = "ok" => cs[i].n = 1 /\ ps.vpce.id = ps.rid
            /\ cs[i].out = "NotFound" =>
                 /\ cs[i].n = 0
                 /\ ps.vpce.id # ps.rid
                 /\ (Len(cs) = 1 => ps.pc = "returned" /\ clusterInfo.clusterTag = "")
            /\ cs[i].out = "miscounted" =>
                 /\ cs[i].n # 1
                 /\ Len(cs) = 1 /\ ps.pc = "returned"
                 /\ ps.err = "UnexpectedCount" /\ ps.vpce = NoVpce
            /\ cs[i].out = "error" =>
                 Len(cs) = 1 /\ ps.pc = "returned" /\ ps.err = "ApiError" /\ ps.vpce = NoVpce

EmptyIdSkippedUntaggedEndpoint ==
  \E p \in Procs :
    LET ps == pass[p]
    IN /\ ps.rid = 0 /\ ps.vpce.id = 2
       /\ endpoints[1].exists /\ endpoints[1].tags = {}
       /\ ps.calls # <<>> /\ ps.calls[1].kind = "ByTags" /\ ps.calls[1].n = 1

\* A step of p's pass that issues a creating or modifying call.
IssuesMutatingCall(p) ==
  /\ pass'[p] # pass[p]
  /\ pass'[p].pc \in {"CreateVpcEndpoint", "ModifySubnets", "ModifySecurityGroups"}

\* C23: a pass that runs while parseClusterInfo refreshes the cluster context,
\* or after parseClusterInfo returned an error, never goes on to a creating
\* or modifying call once it has read a context in which region, infraName,
\* clusterTag, vpcId and domainName are not all populated: such a context is
\* rejected before any mutating call.
ContextFullOrRejected ==
  [][\A p \in Procs :
       IssuesMutatingCall(p) => ~pass'[p].observedPartial]_vars

====
